---------------------------- MODULE Spec2Model ----------------------------
(***************************************************************************)
(* IconButton (src/src/iconbutton.rs) drawn once per frame against a Ui,   *)
(* with the theme of src/src/style.rs.  One widget slot is re-constructed  *)
(* every frame by the builder chain and consumed by draw; the only state   *)
(* that survives a frame is the caller's Smartstate cell, the pointer      *)
(* history of the Ui and the pixels on the display.                        *)
(***************************************************************************)
EXTENDS Integers, Sequences, FiniteSets, TLC

VARIABLES
    pc,        \* "build": a widget is under construction; "done": draw returned; "aborted": draw panicked
    w,         \* the IconButton value of this frame (fields of the struct)
    cell,      \* the caller's long-lived Smartstate cell
    pointer,   \* the Ui's pointer history: the last sample and where the press began
    frame,     \* what the last draw call did: request, allocation, outcome, sink calls, result
    prev,      \* history: the tuple of the preceding completed frame on the cell, or <<>>;
               \* marked "retry" once a call after it was refused its allocation
    seq,       \* history: the frames matched so far of the pointer sequence outside, inside+down, inside+up
    screen,    \* history: the pixels the display shows for the widget, "untracked" once a frame
               \* failed, was not allocated or did not borrow the cell
    called,    \* history: the builder methods called on the widget of this frame
    theme      \* the Style the Ui was created with

vars == <<pc, w, cell, pointer, frame, prev, seq, screen, called, theme>>

----------------------------------------------------------------------------
(* Bounds of the model *)

MaxLabelLen == 1      \* labels have 2, 4, .. 2 * MaxLabelLen characters
MaxMinWidth == 1      \* expand_width takes 0, 30, .. 30 * MaxMinWidth
MaxFailures == 1      \* sink calls that fail in one draw call

LabelLens == {2 * k : k \in 1..MaxLabelLen}
MinWidths == {30 * k : k \in 0..MaxMinWidth}
RowHeights == {0}
IconSizes == {12}
TopLefts == {<<0, 0>>}

\* the richer inputs of the layout runs: labels of 1 .. MaxLabelLen + 2 characters,
\* widths of 0, 12, .. 12 * (MaxMinWidth + 3) around the content widths 24 .. 39,
\* rows lower and higher than the content heights 24 .. 56
LayoutLabelLens == 1..(MaxLabelLen + 2)
LayoutMinWidths == {12 * k : k \in 0..(MaxMinWidth + 3)}
LayoutRowHeights == {0, 28, 56}
LayoutIconSizes == {12, 24}
LayoutTopLefts == {<<0, 0>>, <<8, 4>>}

----------------------------------------------------------------------------
(* Option<T>, Smartstate and Container *)

None == <<>>
Some(x) == <<x>>

Unset == <<"Unset">>
Tagged(code) == <<"Tagged", code>>

\* Smartstate::state(n)
SmartstateState(n) == Tagged(n)

\* Container::clone_inner: a copy of the borrowed cell, None for an empty Container
CloneInner(borrowed, c) == IF borrowed THEN Some(c) ELSE None

\* Container::modify: runs the closure on the borrowed cell, nothing for an empty Container
Modify(borrowed, c, v) == IF borrowed THEN v ELSE c

\* Container::eq_option: true only when a cell is borrowed, the other side is Some,
\* and the two Smartstates are equal; anything compared with nothing is "changed"
EqOption(borrowed, c, other) == borrowed /\ other # None /\ other = Some(c)

----------------------------------------------------------------------------
(* Theme: medsize_bootstrap_rgb565_style *)

WidgetContexts == {"Normal", "Primary", "Secondary"}

WidgetStyle(bw, bc, bg, fg) ==
    [border_width |-> bw, border_color |-> bc, background_color |-> bg, foreground_color |-> fg]

normal_widget ==
    [normal   |-> WidgetStyle(1, "WHITE", "BLACK", "WHITE"),
     hover    |-> WidgetStyle(1, "WHITE", "LIGHT_GRAY", "BLACK"),
     active   |-> WidgetStyle(0, "WHITE", "WHITE", "BLACK"),
     disabled |-> WidgetStyle(1, "DARK_GRAY", "BLACK", "DARK_GRAY")]

primary_widget ==
    [normal   |-> WidgetStyle(0, "0D6EFD", "0D6EFD", "WHITE"),
     hover    |-> WidgetStyle(0, "0B5ED7", "0B5ED7", "WHITE"),
     active   |-> WidgetStyle(0, "0A58CA", "0A58CA", "WHITE"),
     disabled |-> WidgetStyle(0, "1354B3", "1354B3", "LIGHT_GRAY")]

secondary_widget ==
    [normal   |-> WidgetStyle(0, "6C757D", "6C757D", "WHITE"),
     hover    |-> WidgetStyle(0, "5C636A", "5C636A", "WHITE"),
     active   |-> WidgetStyle(0, "0A58CA", "0A58CA", "WHITE"),
     disabled |-> WidgetStyle(0, "51595F", "51595F", "B1B3B4")]

default_widget_height == 16
button_padding_width == 5
button_padding_height == 5
button_corner_radius == 5
font_width == 9
font_height == 15

\* the theme function: the entries iconbutton.rs reads as Option are present
medsize_bootstrap_rgb565_style ==
    [normal_widget |-> normal_widget,
     primary_widget |-> Some(primary_widget),
     secondary_widget |-> Some(secondary_widget),
     button_padding |-> <<button_padding_width, button_padding_height>>]

\* the button paddings of the Styles: the theme's, and one wider than tall that a
\* caller sets in the Style's public spacing field
ButtonPaddings == {<<button_padding_width, button_padding_height>>, <<8, 4>>}

\* the Styles a Ui can be created with: as iconbutton.rs reads the primary and the
\* secondary entry, either may be absent
Styles ==
    {[normal_widget |-> normal_widget, primary_widget |-> p, secondary_widget |-> s,
      button_padding |-> b] :
        p \in {None, Some(primary_widget)}, s \in {None, Some(secondary_widget)},
        b \in ButtonPaddings}

\* ui.style()
Style == theme

\* "let padding = ui.style().spacing.button_padding": padding.width and padding.height
PaddingWidth == Style.button_padding[1]
PaddingHeight == Style.button_padding[2]

UnwrapOrElse(opt, default) == IF opt = None THEN default ELSE opt[1]

----------------------------------------------------------------------------
(* Interaction *)

Interactions == {"None", "Hover", "Click", "Drag", "Release"}
Positions == {"Out", "P0", "P1"}

Inside(pos) == pos # "Out"

\* The interaction classifier of the Ui: the outcomes one pointer sample can get,
\* given the previous sample and the place where the press began
Classify(pos, down, ptr) ==
    IF ptr.down /\ ~down /\ Inside(pos) THEN {"Release"}
    ELSE IF down /\ Inside(pos)
         THEN IF ~(ptr.down /\ Inside(ptr.pos)) THEN {"Click"}
              ELSE IF pos # ptr.press THEN {"Drag"}
              ELSE {"Click", "Drag"}
    ELSE IF Inside(pos) THEN {"Hover"}
    ELSE {"None"}

\* the pointer history after this sample
PointerNext(pos, down, ptr) ==
    [pos |-> pos, down |-> down,
     press |-> IF down /\ Inside(pos)
               THEN (IF ptr.down /\ Inside(ptr.pos) THEN ptr.press ELSE pos)
               ELSE "Out"]

----------------------------------------------------------------------------
(* IconButton: construction *)

NewWidget ==
    [label |-> None, smartstate |-> FALSE, min_width |-> 0,
     is_enabled |-> TRUE, is_modified |-> FALSE, context |-> "Normal", icon |-> 12]

NoFrame ==
    [allocated |-> FALSE, row_height |-> 0, request |-> <<0, 0>>, area |-> <<0, 0, 0, 0>>,
     interaction |-> "None", before |-> Unset, candidate |-> 0,
     rect_style |-> None, fg_color |-> None,
     drawing_area |-> None, background |-> None,
     ops |-> <<>>, failed |-> {}, result |-> "None", response_area |-> None,
     clicked |-> FALSE, down |-> FALSE, icon_at |-> <<0, 0>>, text_at |-> None,
     prior |-> <<>>]

\* values of the display history besides what a draw leaves on it
Untracked == [tag |-> "untracked"]
Blank == [tag |-> "blank"]

\* the call history when it is not kept
CallsUntracked == {"untracked"}

\* the call history after the builder method m
Note(calls, m) == IF calls = CallsUntracked THEN calls ELSE calls \cup {m}

\* the call history of a freshly constructed widget
Fresh(calls) == IF calls = CallsUntracked THEN calls ELSE {}

InitProgram ==
    /\ pc = "build"
    /\ w = NewWidget
    /\ cell = Unset
    /\ pointer = [pos |-> "Out", down |-> FALSE, press |-> "Out"]
    /\ frame = NoFrame

Init ==
    /\ InitProgram
    /\ prev = <<>>
    /\ seq = <<>>
    /\ screen = Untracked
    /\ called = CallsUntracked
    /\ theme = medsize_bootstrap_rgb565_style

InitDisplay ==
    /\ InitProgram
    /\ prev = <<>>
    /\ seq = <<>>
    /\ screen = Blank
    /\ called = CallsUntracked
    /\ theme = medsize_bootstrap_rgb565_style

\* a Ui on the bootstrap theme, the builder calls of each widget recorded
InitLayout ==
    /\ InitProgram
    /\ prev = <<>>
    /\ seq = <<>>
    /\ screen = Untracked
    /\ called = {}
    /\ theme = medsize_bootstrap_rgb565_style

\* a Ui on any of the Styles
InitTheme ==
    /\ InitProgram
    /\ prev = <<>>
    /\ seq = <<>>
    /\ screen = Untracked
    /\ called = CallsUntracked
    /\ theme \in Styles

\* IconButton::new with an icon of one of the sizes
NewOf(sizes) ==
    /\ pc = "done"
    /\ \E i \in sizes : w' = [NewWidget EXCEPT !.icon = i]
    /\ pc' = "build"
    /\ frame' = NoFrame
    /\ called' = Fresh(called)
    /\ UNCHANGED <<cell, pointer, prev, seq, screen, theme>>

\* IconButton::new_from_type with an icon type of one of the sizes
NewFromTypeOf(sizes) ==
    /\ pc = "done"
    /\ \E i \in sizes : w' = [NewWidget EXCEPT !.icon = i]
    /\ frame' = NoFrame
    /\ pc' = "build"
    /\ called' = Fresh(called)
    /\ UNCHANGED <<cell, pointer, prev, seq, screen, theme>>

\* IconButton::label with a text of one of the lengths
LabelOf(lens) ==
    /\ pc = "build"
    /\ \E n \in lens : w' = [w EXCEPT !.label = Some(n)]
    /\ called' = Note(called, "label")
    /\ UNCHANGED <<pc, cell, pointer, frame, prev, seq, screen, theme>>

\* expand_width marking the widget modified only for a width other than the default
ExpandWidthOfUnlessDefault(widths) ==
    /\ pc = "build"
    /\ \E width \in widths :
          w' = [w EXCEPT !.min_width = width, !.is_modified = (w.is_modified \/ width # 0)]
    /\ called' = Note(called, "expand_width")
    /\ UNCHANGED <<pc, cell, pointer, frame, prev, seq, screen, theme>>

\* IconButton::expand_width with one of the widths
ExpandWidthOf(widths) ==
    /\ pc = "build"
    /\ \E width \in widths :
          w' = [w EXCEPT !.min_width = width, !.is_modified = TRUE]
    /\ called' = Note(called, "expand_width")
    /\ UNCHANGED <<pc, cell, pointer, frame, prev, seq, screen, theme>>

\* IconButton::new for the next frame's widget; the last frame's Response is dropped
New == NewOf(IconSizes)

\* IconButton::new_from_type
NewFromType == NewFromTypeOf(IconSizes)

Label == LabelOf(LabelLens)

Smartstate ==
    /\ pc = "build"
    /\ w' = [w EXCEPT !.smartstate = TRUE]
    /\ called' = Note(called, "smartstate")
    /\ UNCHANGED <<pc, cell, pointer, frame, prev, seq, screen, theme>>

ExpandWidth == ExpandWidthOf(MinWidths)

Enable ==
    /\ pc = "build"
    /\ \E enabled \in BOOLEAN :
          w' = [w EXCEPT !.is_modified = TRUE, !.is_enabled = enabled]
    /\ called' = Note(called, "enable")
    /\ UNCHANGED <<pc, cell, pointer, frame, prev, seq, screen, theme>>

Context ==
    /\ pc = "build"
    /\ \E context \in WidgetContexts :
          w' = [w EXCEPT !.is_modified = TRUE, !.context = context]
    /\ called' = Note(called, "context")
    /\ UNCHANGED <<pc, cell, pointer, frame, prev, seq, screen, theme>>

\* the caller clears the cell between frames (Smartstate::force_redraw),
\* while no widget borrows it
ForceRedraw ==
    /\ pc = "build"
    /\ ~w.smartstate
    /\ cell # Unset
    /\ cell' = Unset
    /\ prev' = <<>>
    /\ UNCHANGED <<pc, w, pointer, frame, seq, screen, called, theme>>

NewLayout == NewOf(LayoutIconSizes)

NewFromTypeLayout == NewFromTypeOf(LayoutIconSizes)

LabelLayout == LabelOf(LayoutLabelLens)

ExpandWidthLayout == ExpandWidthOf(LayoutMinWidths)

----------------------------------------------------------------------------
(* IconButton::draw, step by step *)

Max(a, b) == IF a >= b THEN a ELSE b

\* the icon's bounding box is a square of the icon type's size
IconBox(icon) == <<icon, icon>>

\* the label's bounding box in the mono font: one line of 9x15 characters
TextBox(label) == <<label[1] * font_width, font_height>>

Border == Style.normal_widget.normal.border_width

\* the label branch adding the text height without the padding above it
MinHeightTextOnly(icon, label) ==
    LET base == IconBox(icon)[2] + 2 * PaddingHeight + 2 * Border
    IN IF label # None
       THEN base + TextBox(label)[2]
       ELSE base

\* min_height after the label branch
MinHeight(icon, label) ==
    LET base == IconBox(icon)[2] + 2 * PaddingHeight + 2 * Border
    IN IF label # None
       THEN base + PaddingHeight + TextBox(label)[2]
       ELSE base

\* width after the label branch, before min_width is applied
ContentWidth(icon, label) ==
    LET base == IconBox(icon)[2] + 2 * PaddingHeight + 2 * Border
    IN IF label # None
       THEN Max(base, TextBox(label)[1] + 2 * PaddingWidth + 2 * Border)
       ELSE base

\* the height taken from the style and the row alone
HeightWithoutContent(icon, label, row_height) == Max(default_widget_height, row_height)

\* "let height = max(max(default_widget_height, row height), min_height)"
Height(icon, label, row_height) ==
    Max(Max(default_widget_height, row_height), MinHeight(icon, label))

\* min_width assigned without the comparison: 0 is a width like any other
WidthForced(icon, label, min_width) == min_width

\* the comparison turned round: min_width caps the width
WidthCapped(icon, label, min_width) ==
    IF ContentWidth(icon, label) > min_width THEN min_width ELSE ContentWidth(icon, label)

\* "if width < self.min_width { width = self.min_width }"
Width(icon, label, min_width) ==
    IF ContentWidth(icon, label) < min_width THEN min_width ELSE ContentWidth(icon, label)

\* the height counting the border of the widget's own context instead of the
\* Normal context's
RequestSizeContextBorder(wd, row_height) ==
    <<Width(wd.icon, wd.label, wd.min_width),
      Max(Max(default_widget_height, row_height),
          MinHeight(wd.icon, wd.label) - 2 * Border
              + 2 * (CASE wd.context = "Normal" -> normal_widget
                       [] wd.context = "Primary" -> primary_widget
                       [] wd.context = "Secondary" -> secondary_widget).normal.border_width)>>

\* the Size handed to ui.allocate_space
RequestSize(wd, row_height) ==
    <<Width(wd.icon, wd.label, wd.min_width),
      Max(Height(wd.icon, wd.label, row_height), Height(wd.icon, wd.label, row_height))>>

\* ui.allocate_space: the rectangle granted is the requested size at the cursor
AllocateSpace(top_left, size) == <<top_left[1], top_left[2], size[1], size[2]>>

I32Max == 2147483647

\* ((a - b) / 2) as i32, the subtraction in wrapping u32 arithmetic:
\* for a < b the difference wraps to 2^32 + (a - b)
HalfDiff(a, b) ==
    IF a >= b THEN (a - b) \div 2 ELSE I32Max - ((b - a - 1) \div 2)

\* (a - b) as i32 in wrapping u32 arithmetic: the cast undoes the wrap
DiffAsI32(a, b) == a - b

\* the icon centered in the whole rectangle, the label's room not set aside
IconOffsetNoReserve(area, icon, label) ==
    <<area[1] + HalfDiff(area[3], IconBox(icon)[1]),
      area[2] + HalfDiff(area[4], IconBox(icon)[2])>>

\* top-left corner of the icon image
IconOffset(area, icon, label) ==
    LET reserved == IF label # None THEN TextBox(label)[2] + PaddingHeight ELSE 0
    IN <<area[1] + HalfDiff(area[3], IconBox(icon)[1]),
         area[2] + HalfDiff(area[4], IconBox(icon)[2] + reserved)>>

\* anchor of the centered, top-baseline label text
TextOffset(area, label) ==
    <<area[1] + area[3] \div 2,
      area[2] + DiffAsI32(area[4], TextBox(label)[2] + PaddingHeight + Border)>>

\* a click reported on the press as well
ClickOnPress(interaction) == interaction \in {"Release", "Click"}

Click(interaction) == interaction = "Release"

\* the Drag pattern left out of matches!
DownWithoutDrag(interaction) == interaction = "Click"

Down(interaction) == interaction \in {"Click", "Drag"}

\* the Secondary arm copied from the Primary arm and left reading the primary entry
ContextStyleSecondaryAsPrimary(context) ==
    CASE context = "Normal" -> Style.normal_widget
      [] context = "Primary" -> UnwrapOrElse(Style.primary_widget, Style.normal_widget)
      [] context = "Secondary" -> UnwrapOrElse(Style.primary_widget, Style.normal_widget)

\* "let context_style = match self.context"
ContextStyle(context) ==
    CASE context = "Normal" -> Style.normal_widget
      [] context = "Primary" -> UnwrapOrElse(Style.primary_widget, Style.normal_widget)
      [] context = "Secondary" -> UnwrapOrElse(Style.secondary_widget, Style.normal_widget)

\* the arms of "match iresponse.interaction": None, Hover(_), _
Bucket(interaction) ==
    CASE interaction = "None" -> "idle"
      [] interaction = "Hover" -> "hover"
      [] OTHER -> "active"

\* a slip in one arm: the unmodified active code repeats the modified one
CandidateCodeSharedActive(is_enabled, is_modified, interaction) ==
    IF is_enabled
    THEN CASE Bucket(interaction) = "idle" -> (IF is_modified THEN 1 ELSE 2)
           [] Bucket(interaction) = "hover" -> (IF is_modified THEN 3 ELSE 4)
           [] OTHER -> (IF is_modified THEN 5 ELSE 5)
    ELSE IF is_modified THEN 7 ELSE 8

\* the two sides of every "if self.is_modified" exchanged
CandidateCodeParitySwapped(is_enabled, is_modified, interaction) ==
    IF is_enabled
    THEN CASE Bucket(interaction) = "idle" -> (IF is_modified THEN 2 ELSE 1)
           [] Bucket(interaction) = "hover" -> (IF is_modified THEN 4 ELSE 3)
           [] OTHER -> (IF is_modified THEN 6 ELSE 5)
    ELSE IF is_modified THEN 8 ELSE 7

\* the Hover arm writing the codes of the None arm
CandidateCodeHoverAsIdle(is_enabled, is_modified, interaction) ==
    IF is_enabled
    THEN CASE Bucket(interaction) = "idle" -> (IF is_modified THEN 1 ELSE 2)
           [] Bucket(interaction) = "hover" -> (IF is_modified THEN 1 ELSE 2)
           [] OTHER -> (IF is_modified THEN 5 ELSE 6)
    ELSE IF is_modified THEN 7 ELSE 8

\* the code following the pointer: a press that moved gets codes of its own
CandidateCodeByMovement(is_enabled, is_modified, interaction) ==
    IF is_enabled
    THEN CASE Bucket(interaction) = "idle" -> (IF is_modified THEN 1 ELSE 2)
           [] Bucket(interaction) = "hover" -> (IF is_modified THEN 3 ELSE 4)
           [] interaction = "Drag" -> (IF is_modified THEN 11 ELSE 12)
           [] OTHER -> (IF is_modified THEN 5 ELSE 6)
    ELSE IF is_modified THEN 7 ELSE 8

\* an extra arm: Release gets codes of its own
CandidateCodePerOutcome(is_enabled, is_modified, interaction) ==
    IF is_enabled
    THEN CASE Bucket(interaction) = "idle" -> (IF is_modified THEN 1 ELSE 2)
           [] Bucket(interaction) = "hover" -> (IF is_modified THEN 3 ELSE 4)
           [] interaction = "Release" -> (IF is_modified THEN 9 ELSE 10)
           [] OTHER -> (IF is_modified THEN 5 ELSE 6)
    ELSE IF is_modified THEN 7 ELSE 8

\* the code written into the Smartstate by the style branches
CandidateCode(is_enabled, is_modified, interaction) ==
    IF is_enabled
    THEN CASE Bucket(interaction) = "idle" -> (IF is_modified THEN 1 ELSE 2)
           [] Bucket(interaction) = "hover" -> (IF is_modified THEN 3 ELSE 4)
           [] OTHER -> (IF is_modified THEN 5 ELSE 6)
    ELSE IF is_modified THEN 7 ELSE 8

\* the disabled branch taken only while the pointer is away
RectEntryDisabledWhenIdle(context_style, is_enabled, interaction) ==
    IF is_enabled \/ Bucket(interaction) = "active"
    THEN CASE Bucket(interaction) = "idle" -> context_style.normal
           [] Bucket(interaction) = "hover" -> context_style.hover
           [] OTHER -> context_style.active
    ELSE context_style.disabled

\* the theme entry the rectangle style is built from
RectEntry(context_style, is_enabled, interaction) ==
    IF is_enabled
    THEN CASE Bucket(interaction) = "idle" -> context_style.normal
           [] Bucket(interaction) = "hover" -> context_style.hover
           [] OTHER -> context_style.active
    ELSE context_style.disabled

RectStyle(context_style, is_enabled, interaction) ==
    LET e == RectEntry(context_style, is_enabled, interaction)
    IN [stroke_color |-> e.border_color, stroke_width |-> e.border_width,
        fill_color |-> e.background_color]

\* the Hover arm of the second match reading the normal entry
FgColorHoverStale(context_style, is_enabled, interaction) ==
    IF is_enabled
    THEN CASE Bucket(interaction) = "idle" -> context_style.normal.foreground_color
           [] Bucket(interaction) = "hover" -> context_style.normal.foreground_color
           [] OTHER -> context_style.active.foreground_color
    ELSE context_style.disabled.foreground_color

FgColor(context_style, is_enabled, interaction) ==
    IF is_enabled
    THEN CASE Bucket(interaction) = "idle" -> context_style.normal.foreground_color
           [] Bucket(interaction) = "hover" -> context_style.hover.foreground_color
           [] OTHER -> context_style.active.foreground_color
    ELSE context_style.disabled.foreground_color

\* the gate dropped: every frame draws
ShouldDrawAlways(borrowed, c, prevstate) == TRUE

\* the two Options compared with "!=": an empty Container equals its own clone
ShouldDrawPlainCompare(borrowed, c, prevstate) == CloneInner(borrowed, c) # prevstate

\* a cleared cell taken for an unchanged one
ShouldDrawUnlessUnset(borrowed, c, prevstate) ==
    ~EqOption(borrowed, c, prevstate) /\ prevstate # Some(Unset)

\* the gate: "if !self.smartstate.eq_option(&prevstate)"
ShouldDraw(borrowed, c, prevstate) == ~EqOption(borrowed, c, prevstate)

\* the sink calls the draw branch makes that return a result
Attempted(label) ==
    {"background", "icon", "finalize"} \cup (IF label # None THEN {"text"} ELSE {})

\* the sink calls of the draw branch, in order, up to a panicking unwrap
SinkOps(label, failing) ==
    <<"start_drawing", "background", "icon">>
    \o (IF label # None THEN <<"text">> ELSE <<>>)
    \o (IF label # None /\ "text" \in failing THEN <<>> ELSE <<"finalize">>)

\* how the draw branch ends: ".ok()" drops the first two results, "unwrap" panics, "?" returns
SinkResult(label, failing) ==
    IF label # None /\ "text" \in failing THEN "Panic"
    ELSE IF "finalize" \in failing THEN "Err"
    ELSE "Ok"

\* the disabled branch of the Response left out
ResponseClickedUnguarded(is_enabled, click) == click

ResponseClicked(is_enabled, click) == IF is_enabled THEN click ELSE FALSE

ResponseDown(is_enabled, down) == IF is_enabled THEN down ELSE FALSE

\* the background shape built from the size alone, at the origin
BackgroundRectAtOrigin(area) == <<0, 0, area[3], area[4]>>

\* the background shape: Rectangle::new(iresponse.area.top_left, iresponse.area.size)
BackgroundRect(area) == <<area[1], area[2], area[3], area[4]>>

\* Response::new(iresponse): the Response keeps the allocation's rectangle
ResponseArea(area) == area

\* the allocation error swallowed: draw goes on and brackets an empty drawing
AllocErrorFrameSwallowed(request, before, prior) ==
    [NoFrame EXCEPT !.request = request, !.before = before,
                    !.ops = <<"start_drawing", "finalize">>, !.result = "Ok", !.prior = prior]

\* what a draw call has done when "?" returns the error of ui.allocate_space
AllocErrorFrame(request, before, prior) ==
    [NoFrame EXCEPT !.request = request, !.before = before,
                    !.result = "AllocErr", !.prior = prior]

\* the code of the idle frame stored ahead of the allocation
DrawAllocErrorAfterStore(pos, down, row_height) ==
    /\ frame' = [AllocErrorFrame(RequestSize(w, row_height), cell, prev)
                    EXCEPT !.row_height = row_height]
    /\ pointer' = PointerNext(pos, down, pointer)
    /\ pc' = "done"
    /\ cell' = Modify(w.smartstate, cell,
                      SmartstateState(CandidateCode(w.is_enabled, w.is_modified, "None")))
    /\ UNCHANGED w

\* draw when ui.allocate_space returns the error: "?" returns it at once
DrawAllocError(pos, down, row_height) ==
    /\ frame' = [AllocErrorFrame(RequestSize(w, row_height), cell, prev)
                    EXCEPT !.row_height = row_height]
    /\ pointer' = PointerNext(pos, down, pointer)
    /\ pc' = "done"
    /\ UNCHANGED <<w, cell>>

DrawAllocated(pos, down, row_height, top_left, interaction, failing) ==
    LET area == AllocateSpace(top_left, RequestSize(w, row_height))
        click == Click(interaction)
        isdown == Down(interaction)
        prevstate == CloneInner(w.smartstate, cell)
        code == CandidateCode(w.is_enabled, w.is_modified, interaction)
        after == Modify(w.smartstate, cell, SmartstateState(code))
        drawing == ShouldDraw(w.smartstate, after, prevstate)
        failed == IF drawing
                  THEN {s \in failing : \E i \in 1..Len(SinkOps(w.label, failing)) :
                                            SinkOps(w.label, failing)[i] = s}
                  ELSE {}
        result == IF drawing THEN SinkResult(w.label, failing) ELSE "Ok"
    IN /\ drawing \/ failing = {}
       /\ cell' = after
       /\ frame' = [allocated |-> TRUE, row_height |-> row_height,
                    request |-> RequestSize(w, row_height), area |-> area,
                    interaction |-> interaction, before |-> cell, candidate |-> code,
                    rect_style |-> Some(RectStyle(ContextStyle(w.context), w.is_enabled,
                                                  interaction)),
                    fg_color |-> Some(FgColor(ContextStyle(w.context), w.is_enabled,
                                              interaction)),
                    drawing_area |-> IF drawing THEN Some(area) ELSE None,
                    background |-> IF drawing THEN Some(BackgroundRect(area)) ELSE None,
                    ops |-> IF drawing THEN SinkOps(w.label, failing) ELSE <<>>,
                    failed |-> failed, result |-> result,
                    response_area |-> IF result = "Ok" THEN Some(ResponseArea(area)) ELSE None,
                    clicked |-> (result = "Ok" /\ ResponseClicked(w.is_enabled, click)),
                    down |-> (result = "Ok" /\ ResponseDown(w.is_enabled, isdown)),
                    icon_at |-> IconOffset(area, w.icon, w.label),
                    text_at |-> IF w.label # None THEN Some(TextOffset(area, w.label)) ELSE None,
                    prior |-> prev]
       /\ pointer' = PointerNext(pos, down, pointer)
       /\ pc' = IF result = "Panic" THEN "aborted" ELSE "done"
       /\ UNCHANGED w

\* IconButton::draw: one frame of the widget, on one of the pointer samples, in a row
\* of one of the heights, with the cursor at one of the corners and at most so many
\* failing sink calls
DrawCallOn(samples, row_heights, top_lefts, failures) ==
    /\ pc = "build"
    /\ \E sample \in samples, row_height \in row_heights :
          \/ DrawAllocError(sample[1], sample[2], row_height)
          \/ \E top_left \in top_lefts,
                interaction \in Classify(sample[1], sample[2], pointer),
                failing \in {f \in SUBSET Attempted(w.label) : Cardinality(f) <= failures} :
                DrawAllocated(sample[1], sample[2], row_height, top_left, interaction, failing)

DrawCall == DrawCallOn(Positions \X BOOLEAN, RowHeights, TopLefts, MaxFailures)

----------------------------------------------------------------------------
(* History of the frames, read off the draw call that just ended *)

\* what a completed draw branch leaves on the display
Visual(area, rect_style, fg_color, label) ==
    [area |-> area, rect_style |-> rect_style, fg_color |-> fg_color, label |-> label]

\* the pixels the widget built for this frame shows when it is drawn in full
Drawn(wd, f) ==
    Visual(f.area,
           RectStyle(ContextStyle(wd.context), wd.is_enabled, f.interaction),
           FgColor(ContextStyle(wd.context), wd.is_enabled, f.interaction),
           wd.label)

\* the (enabled, modified, interaction bucket) tuple of a frame
Tuple(wd, f) == <<wd.is_enabled, wd.is_modified, Bucket(f.interaction)>>

\* the pointer sequence outside, inside+down, inside+up, matched frame by frame
\* on frames that returned a Response, for a widget enabled or disabled throughout
SeqNext(s, ptr, entry) ==
    IF Len(s) = 1 /\ Inside(ptr.pos) /\ ptr.down /\ s[1][1] = entry[1] THEN Append(s, entry)
    ELSE IF Len(s) = 2 /\ Inside(ptr.pos) /\ ~ptr.down /\ s[1][1] = entry[1] THEN Append(s, entry)
    ELSE IF ~Inside(ptr.pos) THEN <<entry>>
    ELSE <<>>

\* the tuple of the last completed frame, marked once a call in between was refused
\* its allocation
Retried(tuple) == IF tuple = <<>> THEN <<>> ELSE <<tuple[1], tuple[2], tuple[3], "retry">>

TrackFrames ==
    /\ prev' = IF frame'.result = "AllocErr" THEN Retried(prev)
               ELSE IF w.smartstate /\ frame'.result = "Ok" THEN Tuple(w, frame')
               ELSE <<>>
    /\ seq' = IF frame'.result = "Ok"
              THEN SeqNext(seq, pointer', <<w.is_enabled, frame'.clicked, frame'.down>>)
              ELSE <<>>

TrackDisplay ==
    screen' = IF screen = Untracked \/ ~w.smartstate \/ frame'.result # "Ok"
                 \/ frame'.failed # {}
              THEN Untracked
              ELSE IF frame'.ops # <<>> THEN Drawn(w, frame')
              ELSE screen

Draw ==
    /\ DrawCall
    /\ TrackFrames
    /\ UNCHANGED <<screen, called, theme>>

DrawDisplay ==
    /\ DrawCall
    /\ TrackDisplay
    /\ UNCHANGED <<prev, seq, called, theme>>

\* a frame of the layout runs: the pointer up, outside or inside the widget, no
\* failing sink call
DrawLayout ==
    /\ DrawCallOn({"Out", "P0"} \X {FALSE}, LayoutRowHeights, LayoutTopLefts, 0)
    /\ UNCHANGED <<prev, seq, screen, called, theme>>

\* a frame on whichever Style the Ui has
DrawTheme ==
    /\ DrawCall
    /\ UNCHANGED <<prev, seq, screen, called, theme>>

Next ==
    \/ New
    \/ NewFromType
    \/ Label
    \/ Smartstate
    \/ ExpandWidth
    \/ Enable
    \/ Context
    \/ ForceRedraw
    \/ Draw

Spec == Init /\ [][Next]_vars

NextDisplay ==
    \/ New
    \/ NewFromType
    \/ Label
    \/ Smartstate
    \/ ExpandWidth
    \/ Enable
    \/ Context
    \/ ForceRedraw
    \/ DrawDisplay

SpecDisplay == InitDisplay /\ [][NextDisplay]_vars

\* widgets of every size the layout inputs give
NextLayout ==
    \/ NewLayout
    \/ NewFromTypeLayout
    \/ LabelLayout
    \/ Smartstate
    \/ ExpandWidthLayout
    \/ Enable
    \/ Context
    \/ DrawLayout

SpecLayout == InitLayout /\ [][NextLayout]_vars

\* widgets without a Smartstate on a Ui whose Style may lack context entries
NextTheme ==
    \/ New
    \/ NewFromType
    \/ Label
    \/ ExpandWidth
    \/ Enable
    \/ Context
    \/ DrawTheme

SpecTheme == InitTheme /\ [][NextTheme]_vars

----------------------------------------------------------------------------
(* Properties *)

\* the complete draw sequence of a widget with this label
FullSequence(label) ==
    <<"start_drawing", "background", "icon">>
    \o (IF label # None THEN <<"text">> ELSE <<>>) \o <<"finalize">>

\* the candidate code of the frame differs from the code the cell held before it
CodeChanged == SmartstateState(frame.candidate) # frame.before

C2_RedrawSuppression ==
    (pc = "done" /\ frame.allocated /\ w.smartstate /\ frame.prior = Tuple(w, frame))
        => frame.ops = <<>>

C2_Witness ==
    /\ pc = "done" /\ frame.allocated /\ w.smartstate /\ frame.prior = Tuple(w, frame)
    /\ frame.ops = <<>> /\ frame.interaction = "Release"

C4_FailedDrawKeepsCell ==
    (pc = "done" /\ frame.allocated /\ w.smartstate /\ frame.failed # {})
        => cell \in {frame.before, Unset}

\* C5: after successful frames on one cell, the pixels on the display are those the
\* latest frame's widget draws (same label; context, bucket, enabled flag and width free).
C5_NoStalePixels ==
    (pc = "done" /\ screen \notin {Untracked, Blank} /\ frame.allocated
        /\ screen.label = w.label)
        => screen = Drawn(w, frame)

\* the part of a tuple that the disabled style does not ignore
Visible(enabled, modified, bucket) == <<enabled, modified, IF enabled THEN bucket ELSE "idle">>

\* C6 as stated: a tuple has the frame's code if and only if it is the frame's tuple.
C6_DiffCorrectnessAllTuples ==
    frame.allocated =>
        \A e \in BOOLEAN, m \in BOOLEAN, i \in Interactions :
            (CandidateCode(e, m, i) = frame.candidate) <=> (<<e, m, Bucket(i)>> = Tuple(w, frame))

\* C6, amended: two tuples have the same code if and only if they agree on the
\* enabled flag, on the modified flag and, when enabled, on the interaction bucket.
C6_DiffCorrectness ==
    frame.allocated =>
        \A e \in BOOLEAN, m \in BOOLEAN, i \in Interactions :
            (CandidateCode(e, m, i) = frame.candidate)
                <=> (Visible(e, m, Bucket(i))
                        = Visible(w.is_enabled, w.is_modified, Bucket(frame.interaction)))

C6_Witness ==
    /\ pc = "done" /\ frame.allocated /\ ~w.is_enabled /\ frame.interaction = "Hover"
    /\ frame.candidate = CandidateCode(FALSE, w.is_modified, "None")

\* C7: over the pointer sequence outside, inside+down, inside+up on an enabled widget,
\* clicked is true on the third frame, whose outcome is Release, and false on the
\* first two.
C7_ClickSemantics ==
    /\ \A k \in 1..Len(seq) : seq[1][1] => (seq[k][2] <=> k = 3)
    /\ (pc = "done" /\ Len(seq) = 3) => frame.interaction = "Release"

C7_Witness ==
    pc = "done" /\ Len(seq) = 3 /\ seq[1][1] /\ seq[3][2] /\ frame.clicked

\* C8: every Response of a disabled widget has clicked = false and down = false, for
\* every outcome, the pointer sequence outside, inside+down, inside+up included.
C8_DisabledNeverActivates ==
    /\ (pc = "done" /\ frame.result = "Ok" /\ ~w.is_enabled) => (~frame.clicked /\ ~frame.down)
    /\ \A k \in 1..Len(seq) : ~seq[1][1] => (~seq[k][2] /\ ~seq[k][3])

C8_Witness ==
    /\ pc = "done" /\ frame.result = "Ok" /\ ~w.is_enabled
    /\ Len(seq) = 3 /\ ~seq[1][1] /\ frame.interaction = "Release"

\* C9: for an enabled widget clicked is true iff the outcome is Release and down is
\* true iff it is Click or Drag; the two are never true together and both are false
\* for None and Hover.
C9_ResponseFlags ==
    (pc = "done" /\ frame.result = "Ok" /\ w.is_enabled) =>
        /\ frame.clicked <=> frame.interaction = "Release"
        /\ frame.down <=> frame.interaction \in {"Click", "Drag"}
        /\ ~(frame.clicked /\ frame.down)
        /\ frame.interaction \in {"None", "Hover"} => (~frame.clicked /\ ~frame.down)

C9_Witness ==
    /\ pc = "done" /\ frame.result = "Ok" /\ w.is_enabled
    /\ frame.interaction = "Drag" /\ frame.down /\ ~frame.clicked

\* C10: a failure of the background, icon or label primitive makes the draw call
\* return an error.
C10_PrimitiveFailurePropagates ==
    (pc # "build" /\ frame.failed \cap {"background", "icon", "text"} # {})
        => frame.result = "Err"

\* C11: no draw call ends in a panic: allocation failure and every failing sink call,
\* the label text included, end the call with a result value.
C11_NoFatalOutcome ==
    /\ pc # "aborted"
    /\ pc = "done" => frame.result \in {"Ok", "Err", "AllocErr"}

\* C12: a draw call whose allocation is refused returns the allocation error and makes
\* no call to the drawing sink: no start_drawing, no primitive, no finalize.
C12_AllocationFailureDrawsNothing ==
    (pc # "build" /\ ~frame.allocated) =>
        /\ pc = "done"
        /\ frame.result = "AllocErr"
        /\ frame.ops = <<>>
        /\ frame.drawing_area = None /\ frame.background = None
        /\ frame.response_area = None

C12_Witness ==
    /\ pc = "done" /\ ~frame.allocated /\ frame.result = "AllocErr"
    /\ w.label # None /\ w.smartstate /\ frame.before # Unset

C14_DisabledOverridesInteraction ==
    (frame.allocated /\ ~w.is_enabled) =>
        LET entry == IF w.context = "Primary" /\ theme.primary_widget # None
                     THEN theme.primary_widget[1].disabled
                     ELSE IF w.context = "Secondary" /\ theme.secondary_widget # None
                     THEN theme.secondary_widget[1].disabled
                     ELSE theme.normal_widget.disabled
        IN /\ frame.rect_style = Some([stroke_color |-> entry.border_color,
                                       stroke_width |-> entry.border_width,
                                       fill_color |-> entry.background_color])
           /\ frame.fg_color = Some(entry.foreground_color)

C14_Witness ==
    /\ pc = "done" /\ frame.allocated /\ ~w.is_enabled /\ frame.interaction = "Drag"
    /\ w.context = "Secondary" /\ theme.secondary_widget # None
    /\ frame.fg_color = Some("B1B3B4") /\ frame.ops = FullSequence(w.label)

\* the rectangle style and the foreground color built from one entry of a theme
StyleOf(entry) ==
    [rect_style |-> Some([stroke_color |-> entry.border_color,
                          stroke_width |-> entry.border_width,
                          fill_color |-> entry.background_color]),
     fg_color |-> Some(entry.foreground_color)]

\* the styles a frame can take from one context's entry of the theme
StylesIn(context_style) ==
    {StyleOf(context_style.normal), StyleOf(context_style.hover),
     StyleOf(context_style.active), StyleOf(context_style.disabled)}

\* the style the frame resolved
FrameStyle == [rect_style |-> frame.rect_style, fg_color |-> frame.fg_color]

\* C15: with context Primary or Secondary and no entry for it in the Style, the frame
\* takes its style from the Normal entry and a frame without a failing sink call
\* returns Ok; with the entry present the style comes from that entry; with context
\* Normal it comes from the Normal entry.
C15_ContextFallback ==
    frame.allocated =>
        /\ (w.context = "Normal") => FrameStyle \in StylesIn(theme.normal_widget)
        /\ (w.context = "Primary" /\ theme.primary_widget = None)
              => FrameStyle \in StylesIn(theme.normal_widget)
        /\ (w.context = "Secondary" /\ theme.secondary_widget = None)
              => FrameStyle \in StylesIn(theme.normal_widget)
        /\ (w.context = "Primary" /\ theme.primary_widget # None)
              => FrameStyle \in StylesIn(theme.primary_widget[1])
        /\ (w.context = "Secondary" /\ theme.secondary_widget # None)
              => FrameStyle \in StylesIn(theme.secondary_widget[1])
        /\ frame.failed = {} => (pc = "done" /\ frame.result = "Ok")

C15_Witness ==
    /\ pc = "done" /\ frame.allocated /\ w.context = "Secondary"
    /\ theme.secondary_widget = None /\ theme.primary_widget # None
    /\ FrameStyle = StyleOf(normal_widget.hover) /\ frame.result = "Ok"
    /\ frame.ops = FullSequence(w.label)

\* the content-driven width, written out: the square of the content's minimum height
\* without label, widened to the label's width plus padding and border on both sides
ContentDrivenWidth ==
    LET side == w.icon + 2 * button_padding_height + 2 * normal_widget.normal.border_width
        text == IF w.label = None THEN 0
                ELSE w.label[1] * font_width + 2 * button_padding_width
                         + 2 * normal_widget.normal.border_width
    IN IF text > side THEN text ELSE side

\* C16: the width requested from the allocator is max(content-driven width, min_width):
\* exactly min_width when it is larger than the content-driven width, the
\* content-driven width when min_width is smaller or equal.
C16_WidthOverride ==
    pc # "build" =>
        /\ frame.request[1] >= ContentDrivenWidth /\ frame.request[1] >= w.min_width
        /\ frame.request[1] \in {ContentDrivenWidth, w.min_width}
        /\ w.min_width > ContentDrivenWidth => frame.request[1] = w.min_width
        /\ w.min_width <= ContentDrivenWidth => frame.request[1] = ContentDrivenWidth

\* expand_width(36) on a widget whose label makes the content 39 wide
C16_Witness ==
    /\ pc = "done" /\ "expand_width" \in called /\ w.min_width = 36
    /\ w.label = Some(3) /\ frame.request[1] = 39 /\ frame.allocated
    /\ frame.area[3] = 39

\* expand_width(48) on the same widget without label: the content is 24 wide
C16_WitnessLarger ==
    /\ pc = "done" /\ "expand_width" \in called /\ w.min_width = 48 /\ w.icon = 12
    /\ w.label = None /\ frame.request[1] = 48 /\ frame.allocated

\* the content's minimum height, written out
ContentMinHeight ==
    w.icon + 2 * button_padding_height + 2 * normal_widget.normal.border_width
        + (IF w.label = None THEN 0 ELSE button_padding_height + font_height)

\* C17: the height requested from the allocator is the largest of the style's default
\* widget height, the row height and the content's minimum height, which is icon
\* height + 2 * button padding height + 2 * border width, plus button padding height +
\* label height with a label.
C17_HeightNegotiation ==
    pc # "build" =>
        /\ frame.request[2] \in {default_widget_height, frame.row_height, ContentMinHeight}
        /\ frame.request[2] >= default_widget_height
        /\ frame.request[2] >= frame.row_height
        /\ frame.request[2] >= ContentMinHeight

\* a labelled widget of content height 44 in a row 56 high
C17_Witness ==
    /\ pc = "done" /\ frame.allocated /\ w.label # None /\ w.icon = 12
    /\ frame.row_height = 56 /\ frame.request[2] = 56 /\ frame.area[4] = 56

\* a labelled widget of content height 56 in a row 28 high
C17_WitnessContent ==
    /\ pc = "done" /\ frame.allocated /\ w.label # None /\ w.icon = 24
    /\ frame.row_height = 28 /\ frame.request[2] = 56

\* C18: the Response of a draw call that returns Ok carries the rectangle the allocator
\* granted in this frame, the requested size at the cursor; when the frame draws, the
\* same rectangle is passed to start_drawing and is the background shape.
C18_ResponseRectangle ==
    (pc = "done" /\ frame.allocated) =>
        /\ <<frame.area[1], frame.area[2]>> \in LayoutTopLefts
        /\ <<frame.area[3], frame.area[4]>> = frame.request
        /\ frame.result = "Ok" => frame.response_area = Some(frame.area)
        /\ frame.ops # <<>> =>
              /\ frame.drawing_area = Some(frame.area)
              /\ frame.background = Some(frame.area)

C18_Witness ==
    /\ pc = "done" /\ frame.result = "Ok" /\ frame.ops = FullSequence(w.label)
    /\ frame.area = <<8, 4, 48, 56>> /\ frame.response_area = Some(frame.area)
    /\ frame.background = Some(frame.area) /\ w.smartstate

\* a frame that skips drawing still reports its rectangle
C18_WitnessSkipped ==
    /\ pc = "done" /\ frame.result = "Ok" /\ frame.ops = <<>>
    /\ frame.area[1] = 8 /\ frame.response_area = Some(frame.area)

\* the size a widget with this icon and label requests in this row when nothing
\* overrides its width
AutomaticSize ==
    <<ContentDrivenWidth,
      IF frame.row_height >= ContentMinHeight /\ frame.row_height >= default_widget_height
      THEN frame.row_height
      ELSE IF ContentMinHeight >= default_widget_height THEN ContentMinHeight
      ELSE default_widget_height>>

\* C19: a widget whose last expand_width call passed 0 requests the size that the
\* widget with the same icon and label requests without any expand_width call: the
\* automatic size.
C19_ExpandWidthZero ==
    (pc # "build" /\ ("expand_width" \notin called \/ w.min_width = 0))
        => frame.request = AutomaticSize

C19_Witness ==
    /\ pc = "done" /\ "expand_width" \in called /\ w.min_width = 0
    /\ w.label = Some(3) /\ w.icon = 12 /\ frame.row_height = 28
    /\ frame.request = <<39, 44>> /\ frame.allocated

\* the code of every (enabled, modified, interaction bucket) triple
CodeOfTriple ==
    [t \in BOOLEAN \X BOOLEAN \X {"idle", "hover", "active"} |->
        IF t = <<TRUE, TRUE, "idle">> THEN 1
        ELSE IF t = <<TRUE, FALSE, "idle">> THEN 2
        ELSE IF t = <<TRUE, TRUE, "hover">> THEN 3
        ELSE IF t = <<TRUE, FALSE, "hover">> THEN 4
        ELSE IF t = <<TRUE, TRUE, "active">> THEN 5
        ELSE IF t = <<TRUE, FALSE, "active">> THEN 6
        ELSE IF t[2] THEN 7
        ELSE 8]

\* C20: the candidate code of an allocated frame is a function of its (enabled,
\* modified, interaction bucket) triple alone, and it is the code the borrowed cell
\* holds after the call, drawn or not: the cell's previous value, the context, the
\* label, min_width, the pointer position and the rectangle do not enter.
C20_CodeIsFunctionOfTriple ==
    frame.allocated =>
        /\ frame.candidate = CodeOfTriple[Tuple(w, frame)]
        /\ w.smartstate => cell = Tagged(CodeOfTriple[Tuple(w, frame)])

\* a second frame with the triple of the first one, from a cell holding another code,
\* with a label, a context and a width of its own
C20_Witness ==
    /\ pc = "done" /\ w.smartstate /\ frame.before = Tagged(6)
    /\ Tuple(w, frame) = <<TRUE, TRUE, "active">> /\ cell = Tagged(5)
    /\ w.context = "Primary" /\ w.label # None /\ w.min_width = 30
    /\ frame.interaction = "Drag" /\ pointer.pos = "P1"

\* the context entry of the Style the widget's context selects
SelectedContextStyle ==
    IF w.context = "Primary" /\ theme.primary_widget # None THEN theme.primary_widget[1]
    ELSE IF w.context = "Secondary" /\ theme.secondary_widget # None
    THEN theme.secondary_widget[1]
    ELSE theme.normal_widget

\* C21: an enabled widget takes border width, border color, background color and
\* foreground color from one entry of its context: normal for None, hover for Hover,
\* active for each of Click, Drag and Release; the frame's code names the same bucket
\* (1/2 normal, 3/4 hover, 5/6 active).
C21_BucketedStyle ==
    (frame.allocated /\ w.is_enabled) =>
        /\ frame.interaction = "None"
              => (FrameStyle = StyleOf(SelectedContextStyle.normal)
                     /\ frame.candidate \in {1, 2})
        /\ frame.interaction = "Hover"
              => (FrameStyle = StyleOf(SelectedContextStyle.hover)
                     /\ frame.candidate \in {3, 4})
        /\ frame.interaction \in {"Click", "Drag", "Release"}
              => (FrameStyle = StyleOf(SelectedContextStyle.active)
                     /\ frame.candidate \in {5, 6})
        /\ frame.interaction \in Interactions

C21_Witness ==
    /\ pc = "done" /\ frame.allocated /\ w.is_enabled /\ frame.interaction = "Release"
    /\ w.context = "Primary" /\ theme.primary_widget # None
    /\ FrameStyle = StyleOf(primary_widget.active) /\ frame.candidate = 5
    /\ frame.ops = FullSequence(w.label)

Count(ops, name) == Cardinality({i \in 1..Len(ops) : ops[i] = name})

\* C23: a draw call that redraws calls start_drawing on the allocated rectangle, then
\* background, icon, the label text if a label is set, and finalize last; a call that
\* does not redraw calls none of them; start_drawing and finalize are paired in
\* every draw call.
C23_DrawBracketing ==
    pc # "build" =>
        /\ frame.ops \in {<<>>, FullSequence(w.label)}
        /\ frame.ops # <<>> => frame.drawing_area = Some(frame.area)
        /\ Count(frame.ops, "start_drawing") = Count(frame.ops, "finalize")

\* C24: the widget is modified exactly when expand_width, enable or context was called
\* on it, with any argument; new, new_from_type, label and smartstate leave the flag
\* false, and draw does not change it.
C24_ModifiedFlag ==
    /\ w.is_modified <=> (called \cap {"expand_width", "enable", "context"} # {})
    /\ (called \subseteq {"label", "smartstate"}) => ~w.is_modified

\* a widget built with expand_width(0), enable(&true) and context(Normal) only
C24_Witness ==
    /\ pc = "done" /\ called = {"expand_width", "enable", "context"}
    /\ w.min_width = 0 /\ w.is_enabled /\ w.context = "Normal" /\ w.is_modified
    /\ frame.allocated /\ frame.candidate = 1

\* a widget built with label and smartstate only
C24_WitnessUnmodified ==
    /\ pc = "done" /\ called = {"label", "smartstate"} /\ ~w.is_modified
    /\ frame.allocated /\ frame.candidate = 2

\* C25: in the allocated rectangle of size (W, H) the icon of size (iw, ih) is placed
\* at ((W - iw) / 2, (H - ih - r) / 2) from the top-left corner, r being label height +
\* padding height with a label and 0 without; the label is anchored at x = W / 2 and
\* its top at y = H - label height - padding height - border width.
C25_Centering ==
    frame.allocated =>
        LET x0 == frame.area[1]
            y0 == frame.area[2]
            W == frame.area[3]
            H == frame.area[4]
            r == IF w.label = None THEN 0 ELSE font_height + button_padding_height
        IN /\ frame.icon_at = <<x0 + (W - w.icon) \div 2, y0 + (H - w.icon - r) \div 2>>
           /\ w.label = None => frame.text_at = None
           /\ w.label # None =>
                 frame.text_at = Some(<<x0 + W \div 2,
                                        y0 + H - font_height - button_padding_height
                                           - normal_widget.normal.border_width>>)

C25_Witness ==
    /\ pc = "done" /\ frame.allocated /\ w.label = Some(3) /\ w.icon = 12
    /\ frame.area = <<8, 4, 39, 56>>
    /\ frame.icon_at = <<21, 16>> /\ frame.text_at = Some(<<27, 39>>)

\* C26: without a width override, the width requested from the allocator is at least
\* icon width + 2 * horizontal button padding + 2 * border width and, with a label, at
\* least label width + 2 * horizontal button padding + 2 * border width.
C26_ContentWidthLowerBound ==
    (pc # "build" /\ w.min_width = 0) =>
        /\ frame.request[1] >= w.icon + 2 * theme.button_padding[1]
                                   + 2 * theme.normal_widget.normal.border_width
        /\ w.label # None =>
              frame.request[1] >= w.label[1] * font_width + 2 * theme.button_padding[1]
                                      + 2 * theme.normal_widget.normal.border_width

\* C27: the size requested from the allocator is one function of icon size, label,
\* font, button padding, the Normal context's normal border width, default widget
\* height, row height and min_width: frames with the same such inputs request the same
\* size, whatever the pointer sample, the interaction outcome, the enabled flag, the
\* context and the cell hold.
C27_LayoutDeterminism ==
    pc # "build" =>
        frame.request =
            <<IF w.min_width > ContentDrivenWidth THEN w.min_width ELSE ContentDrivenWidth,
              AutomaticSize[2]>>

\* a disabled Secondary widget under the pointer, on a cell that holds a code
C27_Witness ==
    /\ pc = "done" /\ frame.allocated /\ ~w.is_enabled /\ w.context = "Secondary"
    /\ w.smartstate /\ frame.before = Tagged(3) /\ frame.interaction = "Hover"
    /\ w.label = Some(3) /\ w.icon = 12 /\ w.min_width = 36 /\ frame.row_height = 28
    /\ frame.request = <<39, 44>>

\* C28: after a draw call that passed allocation the borrowed cell is not Unset and
\* holds a code in 1..8: 1/2 for enabled idle (modified/unmodified), 3/4 for enabled
\* hover, 5/6 for enabled active, 7/8 for disabled; the call overwrites the cell
\* whether it redraws or not.
C28_CellCodeRange ==
    (pc # "build" /\ frame.allocated /\ w.smartstate) =>
        /\ cell # Unset
        /\ \E code \in 1..8 :
              /\ cell = Tagged(code)
              /\ code \in {1, 2} <=> (w.is_enabled /\ frame.interaction = "None")
              /\ code \in {3, 4} <=> (w.is_enabled /\ frame.interaction = "Hover")
              /\ code \in {5, 6} <=> (w.is_enabled
                                         /\ frame.interaction \in {"Click", "Drag", "Release"})
              /\ code \in {7, 8} <=> ~w.is_enabled
              /\ code \in {1, 3, 5, 7} <=> w.is_modified

\* a frame that does not redraw, on a cell that already held the frame's code
C28_Witness ==
    /\ pc = "done" /\ frame.allocated /\ w.smartstate /\ frame.ops = <<>>
    /\ frame.before = Tagged(6) /\ cell = Tagged(6) /\ frame.interaction = "Click"

\* C29: a draw call that is refused its allocation leaves the borrowed cell at its
\* pre-call value; the next allocated frame on the cell finds the code of the last
\* completed frame there and redraws exactly when its own code differs from it.
C29_AllocErrorKeepsCell ==
    /\ (pc # "build" /\ ~frame.allocated) => cell = frame.before
    /\ (frame.allocated /\ w.smartstate /\ Len(frame.prior) = 4) =>
          LET stored == CodeOfTriple[<<frame.prior[1], frame.prior[2], frame.prior[3]>>]
          IN /\ frame.before = Tagged(stored)
             /\ frame.ops = <<>> <=> frame.candidate = stored

\* the frame after a refused one, with the tuple of the frame before it: not redrawn
C29_Witness ==
    /\ pc = "done" /\ frame.allocated /\ w.smartstate
    /\ frame.prior = <<TRUE, TRUE, "hover", "retry">>
    /\ Tuple(w, frame) = <<TRUE, TRUE, "hover">> /\ frame.ops = <<>>
    /\ frame.before = Tagged(3)

\* a refused call on a borrowed cell that holds a code
C29_WitnessRefused ==
    /\ pc = "done" /\ ~frame.allocated /\ w.smartstate /\ ~w.is_enabled
    /\ frame.before = Tagged(3) /\ cell = Tagged(3)

\* C30: with the rectangle granted at least as large as the size requested the
\* subtractions W - iw, H - ih - (label height + padding height) and H - label height -
\* padding height - border width do not go below 0, and the icon's bottom edge is not
\* below the label's top edge.
C30_NoUnderflow ==
    frame.allocated =>
        LET W == frame.area[3]
            H == frame.area[4]
            r == IF w.label = None THEN 0 ELSE font_height + button_padding_height
        IN /\ W >= frame.request[1] /\ H >= frame.request[2]
           /\ W - w.icon >= 0
           /\ H - w.icon - r >= 0
           /\ frame.icon_at[1] - frame.area[1] <= W - w.icon
           /\ frame.icon_at[2] - frame.area[2] <= H - w.icon - r
           /\ w.label # None =>
                 /\ H - font_height - button_padding_height
                        - normal_widget.normal.border_width >= 0
                 /\ frame.text_at[1][2] >= frame.area[2]
                 /\ frame.icon_at[2] + w.icon <= frame.text_at[1][2]

\* the tallest labelled widget in the lowest row: the content decides the height
C30_Witness ==
    /\ pc = "done" /\ frame.allocated /\ w.label # None /\ w.icon = 24
    /\ frame.row_height = 0 /\ frame.area = <<8, 4, 36, 56>>
    /\ frame.icon_at = <<14, 10>> /\ frame.text_at = Some(<<26, 39>>)

============================================================================
